---- MODULE Spec2Model ----
(***************************************************************************)
(* Model of the GC visualiser (src/gc_visualizer_slides_25_36.jsx): a      *)
(* three-phase compacting mark & sweep collector over a vector heap, with  *)
(* a snapshot history for stepping back.                                   *)
(*                                                                         *)
(* Representation.                                                         *)
(*   - `number | null` is an integer, with Null standing for null.  An     *)
(*     absent (undefined) newAddr is Null as well: the code reads newAddr   *)
(*     only through `!= null`, which does not tell the two apart.          *)
(*   - `marked?: boolean` is a BOOLEAN; an absent flag is FALSE: the code  *)
(*     reads it only for truthiness.                                       *)
(*   - an array is a sequence; a Map is the sequence of its <<key, value>> *)
(*     entries in insertion order.                                         *)
(***************************************************************************)
EXTENDS Integers, Sequences, FiniteSets, TLC

VARIABLES scenario, objects, root, phase, mapping, nextFree, history, lastCmd

vars == <<scenario, objects, root, phase, mapping, nextFree, history, lastCmd>>

\* The five pieces of state a snapshot records.
heapState == <<objects, root, phase, mapping, nextFree>>

Null == -1

\* ---------------------------------------------------------------- bounds
\* Capacity of the generated heaps of SpecHeaps.
MemSize == 4

\* ---------------------------------------------------------------- helpers
Range(s) == {s[i] : i \in DOMAIN s}

Max(a, b) == IF a >= b THEN a ELSE b

Obj(id, addr, size, fields) ==
    [id |-> id, addr |-> addr, size |-> size, fields |-> fields,
     marked |-> FALSE, newAddr |-> Null]

\* JSON.parse(JSON.stringify(x)) on an Obj[]: every object and every fields
\* array is rebuilt from its printed form; the values that occur (strings,
\* integers, null, booleans) print and parse back to themselves.
deepClone(objs) ==
    [i \in 1..Len(objs) |->
        [id      |-> objs[i].id,
         addr    |-> objs[i].addr,
         size    |-> objs[i].size,
         fields  |-> [k \in 1..Len(objs[i].fields) |-> objs[i].fields[k]],
         marked  |-> objs[i].marked,
         newAddr |-> objs[i].newAddr]]

\* Map.has / Map.get / Map.set on a Map kept as its entries.
MapHas(m, k) == \E i \in DOMAIN m : m[i][1] = k

MapGet(m, k) == IF MapHas(m, k) THEN m[CHOOSE i \in DOMAIN m : m[i][1] = k][2] ELSE Null

MapSet(m, k, v) ==
    IF MapHas(m, k)
    THEN [i \in DOMAIN m |-> IF m[i][1] = k THEN <<k, v>> ELSE m[i]]
    ELSE Append(m, <<k, v>>)

\* new Map(entries)
RECURSIVE MapFromEntries(_)
MapFromEntries(es) ==
    IF es = <<>> THEN <<>>
    ELSE MapSet(MapFromEntries(SubSeq(es, 1, Len(es) - 1)), es[Len(es)][1], es[Len(es)][2])

\* [...mapping.entries()]
MapEntries(m) == [i \in 1..Len(m) |-> <<m[i][1], m[i][2]>>]

\* The order in which [...arr].sort((a, b) => a.addr - b.addr) lists the
\* elements of arr, as indices into arr (the sort is stable).
RECURSIVE SortPerm(_)
SortPerm(arr) ==
    IF arr = <<>> THEN <<>>
    ELSE LET n    == Len(arr)
             rest == SortPerm(SubSeq(arr, 1, n - 1))
             pos  == Cardinality({k \in DOMAIN rest : arr[rest[k]].addr <= arr[n].addr})
         IN  SubSeq(rest, 1, pos) \o <<n>> \o SubSeq(rest, pos + 1, Len(rest))

sortByAddr(arr) == [k \in 1..Len(arr) |-> arr[SortPerm(arr)[k]]]

\* objects.reduce((m, o) => Math.max(m, o.addr + o.size), 0)
RECURSIVE reduceMaxEnd(_)
reduceMaxEnd(objs) ==
    IF objs = <<>> THEN 0
    ELSE Max(reduceMaxEnd(SubSeq(objs, 1, Len(objs) - 1)),
             objs[Len(objs)].addr + objs[Len(objs)].size)

\* ---------------------------------------------------------------- phase 1
\* new Map(objects.map(o => [o.addr, o])).get(addr): the index of the object
\* the map holds for addr (the last one with that address), 0 when there is none.
MapGetObj(objs, addr) ==
    IF \E i \in DOMAIN objs : objs[i].addr = addr
    THEN CHOOSE i \in DOMAIN objs :
            /\ objs[i].addr = addr
            /\ \A j \in DOMAIN objs : objs[j].addr = addr => j <= i
    ELSE 0

RECURSIVE dfs(_, _, _)
RECURSIVE dfsFields(_, _, _, _)

\* A dfs that enters an object it has visited already once more (without
\* following its fields again).
dfs_revisits(objs, visited, addr) ==
    IF addr = Null THEN visited
    ELSE LET i == MapGetObj(objs, addr)
         IN  IF i = 0 THEN visited
             ELSE IF addr \in Range(visited) THEN Append(visited, addr)
             ELSE dfsFields(objs, Append(visited, addr), objs[i].fields, 1)

\* dfs that marks the object it is called on and follows none of its fields.
dfs_rootOnly(objs, visited, addr) ==
    IF addr = Null THEN visited
    ELSE IF MapGetObj(objs, addr) = 0 \/ addr \in Range(visited) THEN visited
         ELSE Append(visited, addr)

\* dfs: the visited set after the call, as the sequence of its insertions.
dfs(objs, visited, addr) ==
    IF addr = Null THEN visited
    ELSE LET i == MapGetObj(objs, addr)
         IN  IF i = 0 \/ addr \in Range(visited) THEN visited
             ELSE dfsFields(objs, Append(visited, addr), objs[i].fields, 1)

dfsFields(objs, visited, fields, k) ==
    IF k > Len(fields) THEN visited
    ELSE dfsFields(objs,
                   IF fields[k] # Null THEN dfs(objs, visited, fields[k]) ELSE visited,
                   fields, k + 1)

markVisited(objs, rootAddr) == IF rootAddr # Null THEN dfs(objs, <<>>, rootAddr) ELSE <<>>

\* A marking that flips the flag of every visited object instead of setting it.
markReachable_toggles(objs, rootAddr) ==
    LET visited == Range(markVisited(objs, rootAddr))
    IN  [i \in 1..Len(objs) |->
            IF objs[i].addr \in visited /\ MapGetObj(objs, objs[i].addr) = i
            THEN [objs[i] EXCEPT !.marked = ~objs[i].marked]
            ELSE objs[i]]

markReachable(objs, rootAddr) ==
    LET visited == Range(markVisited(objs, rootAddr))
    IN  [i \in 1..Len(objs) |->
            IF objs[i].addr \in visited /\ MapGetObj(objs, objs[i].addr) = i
            THEN [objs[i] EXCEPT !.marked = TRUE]
            ELSE objs[i]]

\* ---------------------------------------------------------------- phase 2
\* A scan that moves each marked object to its planned address at once.
RECURSIVE planScan_movesObjects(_, _, _)
planScan_movesObjects(perm, k, st) ==
    IF k > Len(perm) THEN st
    ELSE LET i == perm[k]
             o == st.objects[i]
         IN  IF o.marked
             THEN planScan_movesObjects(perm, k + 1,
                    [objects  |-> [st.objects EXCEPT ![i].newAddr = st.newAddr,
                                                     ![i].addr = st.newAddr],
                     oldToNew |-> MapSet(st.oldToNew, o.addr, st.newAddr),
                     newAddr  |-> st.newAddr + o.size])
             ELSE planScan_movesObjects(perm, k + 1, st)

\* A scan whose cursor advances over the unmarked objects as well.
RECURSIVE planScan_countsGarbage(_, _, _)
planScan_countsGarbage(perm, k, st) ==
    IF k > Len(perm) THEN st
    ELSE LET i == perm[k]
             o == st.objects[i]
         IN  IF o.marked
             THEN planScan_countsGarbage(perm, k + 1,
                    [objects  |-> [st.objects EXCEPT ![i].newAddr = st.newAddr],
                     oldToNew |-> MapSet(st.oldToNew, o.addr, st.newAddr),
                     newAddr  |-> st.newAddr + o.size])
             ELSE planScan_countsGarbage(perm, k + 1, [st EXCEPT !.newAddr = st.newAddr + o.size])

\* The scan of prepareCompaction over the sorted objects, from position k on.
RECURSIVE planScan(_, _, _)
planScan(perm, k, st) ==
    IF k > Len(perm) THEN st
    ELSE LET i == perm[k]
             o == st.objects[i]
         IN  IF o.marked
             THEN planScan(perm, k + 1,
                    [objects  |-> [st.objects EXCEPT ![i].newAddr = st.newAddr],
                     oldToNew |-> MapSet(st.oldToNew, o.addr, st.newAddr),
                     newAddr  |-> st.newAddr + o.size])
             ELSE planScan(perm, k + 1, st)

\* A field update that leaves every pointer at its old address.
retarget_stale(oldToNew, cell) == cell

retarget(oldToNew, cell) ==
    IF cell # Null /\ MapHas(oldToNew, cell) THEN MapGet(oldToNew, cell) ELSE cell

\* A prepare that hands the root back untranslated.
prepareCompaction_keepsRoot(objs, memorySize, rootAddr) ==
    LET st == planScan(SortPerm(objs), 1, [objects |-> objs, oldToNew |-> <<>>, newAddr |-> 0])
    IN  [objects  |-> [i \in 1..Len(objs) |->
                          [st.objects[i] EXCEPT !.fields =
                              [k \in 1..Len(st.objects[i].fields) |->
                                  retarget(st.oldToNew, st.objects[i].fields[k])]]],
         oldToNew |-> st.oldToNew,
         newRoot  |-> rootAddr,
         nextFree |-> st.newAddr]

prepareCompaction(objs, memorySize, rootAddr) ==
    LET st == planScan(SortPerm(objs), 1, [objects |-> objs, oldToNew |-> <<>>, newAddr |-> 0])
    IN  [objects  |-> [i \in 1..Len(objs) |->
                          [st.objects[i] EXCEPT !.fields =
                              [k \in 1..Len(st.objects[i].fields) |->
                                  retarget(st.oldToNew, st.objects[i].fields[k])]]],
         oldToNew |-> st.oldToNew,
         newRoot  |-> IF rootAddr # Null /\ MapHas(st.oldToNew, rootAddr)
                      THEN MapGet(st.oldToNew, rootAddr) ELSE Null,
         nextFree |-> st.newAddr]

\* ---------------------------------------------------------------- phase 3
\* A crunch that keeps the unmarked objects where they are.
RECURSIVE crunchFrom_keepsGarbage(_, _, _)
crunchFrom_keepsGarbage(sorted, k, oldToNew) ==
    IF k > Len(sorted) THEN <<>>
    ELSE LET o == sorted[k]
         IN  <<[o EXCEPT !.addr = IF o.marked THEN MapGet(oldToNew, o.addr) ELSE o.addr,
                         !.newAddr = Null,
                         !.marked = FALSE]>>
             \o crunchFrom_keepsGarbage(sorted, k + 1, oldToNew)

\* A crunch that drops the garbage and leaves the survivors at their old addresses.
RECURSIVE crunchFrom_keepsAddr(_, _, _)
crunchFrom_keepsAddr(sorted, k, oldToNew) ==
    IF k > Len(sorted) THEN <<>>
    ELSE LET o == sorted[k]
         IN  IF ~o.marked THEN crunchFrom_keepsAddr(sorted, k + 1, oldToNew)
             ELSE <<[o EXCEPT !.newAddr = Null, !.marked = FALSE]>>
                  \o crunchFrom_keepsAddr(sorted, k + 1, oldToNew)

RECURSIVE crunchFrom(_, _, _)
crunchFrom(sorted, k, oldToNew) ==
    IF k > Len(sorted) THEN <<>>
    ELSE LET o == sorted[k]
         IN  IF ~o.marked THEN crunchFrom(sorted, k + 1, oldToNew)
             ELSE <<[o EXCEPT !.addr = MapGet(oldToNew, o.addr),
                              !.newAddr = Null,
                              !.marked = FALSE]>>
                  \o crunchFrom(sorted, k + 1, oldToNew)

crunch(objs, oldToNew) == crunchFrom(sortByAddr(objs), 1, oldToNew)

\* ---------------------------------------------------------------- component
makeDefaultScenario ==
    [memorySize |-> 36,
     root       |-> 2,
     objects    |-> << Obj("A", 2, 4, <<8, 14, Null>>),
                       Obj("B", 8, 3, <<14, Null>>),
                       Obj("C", 14, 3, <<Null, Null>>),
                       Obj("D", 22, 5, <<Null, Null, Null, Null>>) >>]

\* The state the useState initialisers build from a scenario.
mount(sc) ==
    /\ scenario = sc
    /\ objects = deepClone(sc.objects)
    /\ root = sc.root
    /\ phase = "idle"
    /\ mapping = <<>>
    /\ nextFree = reduceMaxEnd(deepClone(sc.objects))
    /\ history = <<>>
    /\ lastCmd = "mount"

Init == mount(makeDefaultScenario)

\* A snapshot that records the scenario's root instead of the current one.
takeSnap_scenarioRoot ==
    [objects  |-> deepClone(objects),
     root     |-> scenario.root,
     phase    |-> phase,
     mapping  |-> MapEntries(mapping),
     nextFree |-> nextFree]

takeSnap ==
    [objects  |-> deepClone(objects),
     root     |-> root,
     phase    |-> phase,
     mapping  |-> MapEntries(mapping),
     nextFree |-> nextFree]

\* A push that keeps only the newest snapshot.
pushHistory_replacesTop == history' = <<takeSnap>>

pushHistory == history' = Append(history, takeSnap)

\* A goPrev that restores everything but the mapping.
goPrev_keepsMapping ==
    IF Len(history) = 0 THEN UNCHANGED <<heapState, history>>
    ELSE LET last == history[Len(history)]
         IN  /\ objects' = deepClone(last.objects)
             /\ root' = last.root
             /\ phase' = last.phase
             /\ UNCHANGED mapping
             /\ nextFree' = last.nextFree
             /\ history' = SubSeq(history, 1, Len(history) - 1)

\* A goPrev that, with nothing to pop, falls back to the scenario's initial heap.
goPrev_resetsOnEmpty ==
    IF Len(history) = 0
    THEN /\ objects' = deepClone(scenario.objects)
         /\ root' = scenario.root
         /\ UNCHANGED <<phase, mapping, nextFree, history>>
    ELSE LET last == history[Len(history)]
         IN  /\ objects' = deepClone(last.objects)
             /\ root' = last.root
             /\ phase' = last.phase
             /\ mapping' = MapFromEntries(last.mapping)
             /\ nextFree' = last.nextFree
             /\ history' = SubSeq(history, 1, Len(history) - 1)

goPrev ==
    IF Len(history) = 0 THEN UNCHANGED <<heapState, history>>
    ELSE LET last == history[Len(history)]
         IN  /\ objects' = deepClone(last.objects)
             /\ root' = last.root
             /\ phase' = last.phase
             /\ mapping' = MapFromEntries(last.mapping)
             /\ nextFree' = last.nextFree
             /\ history' = SubSeq(history, 1, Len(history) - 1)

\* A reset that leaves the history stack as it is.
reset_keepsHistory ==
    LET sc == makeDefaultScenario
    IN  /\ scenario' = sc
        /\ objects' = deepClone(sc.objects)
        /\ root' = sc.root
        /\ phase' = "idle"
        /\ mapping' = <<>>
        /\ nextFree' = reduceMaxEnd(sc.objects)
        /\ UNCHANGED history

reset ==
    LET sc == makeDefaultScenario
    IN  /\ scenario' = sc
        /\ objects' = deepClone(sc.objects)
        /\ root' = sc.root
        /\ phase' = "idle"
        /\ mapping' = <<>>
        /\ nextFree' = reduceMaxEnd(sc.objects)
        /\ history' = <<>>

\* A doMark without its phase check.
doMark_unguarded ==
    /\ history' = Append(history, takeSnap)
    /\ objects' = markReachable(deepClone(objects), root)
    /\ phase' = "mark"
    /\ UNCHANGED <<root, mapping, nextFree>>

doMark ==
    IF phase # "idle" THEN UNCHANGED <<heapState, history>>
    ELSE /\ pushHistory
         /\ objects' = markReachable(deepClone(objects), root)
         /\ phase' = "mark"
         /\ UNCHANGED <<root, mapping, nextFree>>

doPrepare ==
    IF phase # "mark" THEN UNCHANGED <<heapState, history>>
    ELSE LET r == prepareCompaction(deepClone(objects), scenario.memorySize, root)
         IN  /\ pushHistory
             /\ objects' = r.objects
             /\ mapping' = r.oldToNew
             /\ root' = r.newRoot
             /\ nextFree' = r.nextFree
             /\ phase' = "prepare"

\* A doCrunch that also empties the mapping.
doCrunch_clearsMapping ==
    IF phase # "prepare" THEN UNCHANGED <<heapState, history>>
    ELSE /\ pushHistory
         /\ objects' = crunch(deepClone(objects), mapping)
         /\ phase' = "crunch"
         /\ mapping' = <<>>
         /\ UNCHANGED <<root, nextFree>>

doCrunch ==
    IF phase # "prepare" THEN UNCHANGED <<heapState, history>>
    ELSE /\ pushHistory
         /\ objects' = crunch(deepClone(objects), mapping)
         /\ phase' = "crunch"
         /\ UNCHANGED <<root, mapping, nextFree>>

autoRun ==
    IF phase = "idle" THEN doMark
    ELSE IF phase = "mark" THEN doPrepare
    ELSE IF phase = "prepare" THEN doCrunch
    ELSE UNCHANGED <<heapState, history>>

changeRoot(addr) ==
    IF phase = "idle"
    THEN root' = addr /\ UNCHANGED <<objects, phase, mapping, nextFree, history>>
    ELSE UNCHANGED <<heapState, history>>

\* The ids `G${Math.floor(Math.random()*90+10)}` can give: two of the ninety.
GarbageIds == {"G10", "G11"}

addGarbage(id) ==
    IF phase # "idle" THEN UNCHANGED <<heapState, history>>
    ELSE LET lastEnd == reduceMaxEnd(objects)
             free    == scenario.memorySize - lastEnd
         IN  IF free < 3 THEN UNCHANGED <<heapState, history>>
             ELSE /\ objects' = sortByAddr(Append(objects, Obj(id, lastEnd + 1, 3, <<Null, Null>>)))
                  /\ UNCHANGED <<root, phase, mapping, nextFree, history>>

\* ---------------------------------------------------------------- commands
\* One action per handler; lastCmd names the handler invoked last.
Reset == reset /\ lastCmd' = "reset"

Mark == doMark /\ lastCmd' = "doMark" /\ UNCHANGED scenario

Prepare == doPrepare /\ lastCmd' = "doPrepare" /\ UNCHANGED scenario

Crunch == doCrunch /\ lastCmd' = "doCrunch" /\ UNCHANGED scenario

AutoRun == autoRun /\ lastCmd' = "autoRun" /\ UNCHANGED scenario

\* The "Set as root" button of an object of the list passes that object's address.
ChangeRoot ==
    \E i \in DOMAIN objects :
        changeRoot(objects[i].addr) /\ lastCmd' = "changeRoot" /\ UNCHANGED scenario

AddGarbage ==
    \E id \in GarbageIds :
        addGarbage(id) /\ lastCmd' = "addGarbage" /\ UNCHANGED scenario

GoPrev == goPrev /\ lastCmd' = "goPrev" /\ UNCHANGED scenario

Next ==
    \/ Reset
    \/ Mark
    \/ Prepare
    \/ Crunch
    \/ AutoRun
    \/ ChangeRoot
    \/ AddGarbage
    \/ GoPrev

Spec == Init /\ [][Next]_vars

\* ---------------------------------------------------------------- any heap
\* The valid scenarios of capacity MemSize: a layout gives every address the
\* size of the object that starts there (0 for none); the objects lie inside
\* the heap and do not overlap, and are listed by ascending address as in
\* makeDefaultScenario.  A field is null or any address of the heap: the
\* address of an object, or one at which no object starts (a dangling reference).
Layouts ==
    {l \in [0..(MemSize - 1) -> 0..MemSize] :
        \A a \in DOMAIN l :
            l[a] > 0 => /\ a + l[a] <= MemSize
                        /\ \A b \in (a + 1)..(a + l[a] - 1) : l[b] = 0}

AddrsOf(l) == {a \in DOMAIN l : l[a] > 0}

FieldVals == {Null} \cup (0..(MemSize - 1))

ObjIds == <<"A", "B", "C", "D", "E", "F", "H", "I">>

RECURSIVE SetToSortedSeq(_)
SetToSortedSeq(S) ==
    IF S = {} THEN <<>>
    ELSE LET m == CHOOSE x \in S : \A y \in S : y <= x
         IN  Append(SetToSortedSeq(S \ {m}), m)

\* The cells that hold a field: those after the header of an object.
FieldCells(l) == {c \in DOMAIN l : \E a \in AddrsOf(l) : a < c /\ c < a + l[a]}

HeapScenario(l, cells, r) ==
    LET addrs == SetToSortedSeq(AddrsOf(l))
    IN  [memorySize |-> MemSize,
         root       |-> r,
         objects    |-> [i \in 1..Len(addrs) |->
                            Obj(ObjIds[i], addrs[i], l[addrs[i]],
                                [k \in 1..(l[addrs[i]] - 1) |-> cells[addrs[i] + k]])]]

InitHeaps ==
    \E l \in Layouts :
        \E cells \in [FieldCells(l) -> FieldVals] :
            \E r \in {Null} \cup AddrsOf(l) :
                mount(HeapScenario(l, cells, r))

SpecHeaps == InitHeaps /\ [][Next]_vars

\* ================================================================ properties
\* The snapshot on top of the history: the state before the latest forward step.
Pre == history[Len(history)]

AddrSet(objs) == {objs[i].addr : i \in DOMAIN objs}

\* The object addresses one field-pointer hop away from the objects at S.
Hop(objs, S) ==
    {p \in AddrSet(objs) :
        \E i \in DOMAIN objs :
            objs[i].addr \in S /\ \E k \in DOMAIN objs[i].fields : objs[i].fields[k] = p}

RECURSIVE Closure(_, _)
Closure(objs, S) ==
    IF Hop(objs, S) \subseteq S THEN S ELSE Closure(objs, S \cup Hop(objs, S))

\* The addresses of the objects reachable from the object at address r.
Reachable(objs, r) == IF r \in AddrSet(objs) THEN Closure(objs, {r}) ELSE {}

RECURSIVE SumSizes(_, _)
SumSizes(objs, I) ==
    IF I = {} THEN 0
    ELSE LET i == CHOOSE x \in I : TRUE IN objs[i].size + SumSizes(objs, I \ {i})

MarkedIdx(objs) == {i \in DOMAIN objs : objs[i].marked}

\* The marked objects that lie below object i.
MarkedBelow(objs, i) == {j \in MarkedIdx(objs) : objs[j].addr < objs[i].addr}

\* C1: after mark, an object is marked exactly when it is reachable from the
\* object at the root address by zero or more field-pointer hops.
C1_MarkedIffReachable ==
    phase = "mark" =>
        /\ Len(objects) = Len(Pre.objects)
        /\ \A i \in DOMAIN objects :
              objects[i].marked <=> Pre.objects[i].addr \in Reachable(Pre.objects, Pre.root)

\* A mark that reached an object other than the root, through a cycle back to
\* the root, and left another field of a marked object dangling or an object unmarked.
C1_Witness ==
    /\ phase = "mark"
    /\ lastCmd = "doMark"
    /\ \E i \in DOMAIN objects :
          /\ objects[i].marked
          /\ objects[i].addr # root
          /\ \E k \in DOMAIN objects[i].fields : objects[i].fields[k] = root

\* C2: after prepare, the planned addresses of the marked objects, in ascending
\* address order, are contiguous from 0 (each is the sum of the sizes of the
\* marked objects below it); an unmarked object has no planned address and no
\* mapping entry; nextFree is the sum of the sizes of the marked objects.
C2_PlanIsDense ==
    phase = "prepare" =>
        /\ \A i \in DOMAIN objects :
              IF objects[i].marked
              THEN /\ objects[i].newAddr = SumSizes(objects, MarkedBelow(objects, i))
                   /\ MapHas(mapping, objects[i].addr)
                   /\ MapGet(mapping, objects[i].addr) = objects[i].newAddr
              ELSE /\ objects[i].newAddr = Null
                   /\ ~MapHas(mapping, objects[i].addr)
        /\ Len(mapping) = Cardinality(MarkedIdx(objects))
        /\ nextFree = SumSizes(objects, MarkedIdx(objects))

\* A plan that skipped an unmarked object lying between two marked ones.
C2_Witness ==
    /\ phase = "prepare"
    /\ lastCmd = "doPrepare"
    /\ \E i, j, g \in DOMAIN objects :
          /\ objects[i].marked /\ objects[j].marked /\ ~objects[g].marked
          /\ objects[i].addr < objects[g].addr /\ objects[g].addr < objects[j].addr
          /\ objects[j].newAddr = objects[i].newAddr + objects[i].size

RECURSIVE IdxByAddr(_, _)
IdxByAddr(objs, I) ==
    IF I = {} THEN <<>>
    ELSE LET m == CHOOSE x \in I : \A y \in I : objs[y].addr <= objs[x].addr
         IN  Append(IdxByAddr(objs, I \ {m}), m)

\* C4: after crunch the objects are exactly the objects marked at prepare time,
\* by ascending new address, each at its planned address, unmarked and with
\* the planned address cleared.
C4_CrunchKeepsMarked ==
    phase = "crunch" =>
        LET old == Pre.objects
            idx == IdxByAddr(old, MarkedIdx(old))
        IN  /\ Len(objects) = Cardinality(MarkedIdx(old))
            /\ \A k \in DOMAIN objects :
                  /\ objects[k].id = old[idx[k]].id
                  /\ objects[k].size = old[idx[k]].size
                  /\ objects[k].fields = old[idx[k]].fields
                  /\ objects[k].addr = old[idx[k]].newAddr
                  /\ objects[k].marked = FALSE
                  /\ objects[k].newAddr = Null
            /\ \A k, m \in DOMAIN objects : k < m => objects[k].addr < objects[m].addr

\* A crunch that dropped an unmarked object and moved a survivor.
C4_Witness ==
    /\ phase = "crunch"
    /\ lastCmd = "doCrunch"
    /\ Len(objects) >= 2
    /\ Len(objects) < Len(Pre.objects)
    /\ \E k \in DOMAIN objects : \A i \in DOMAIN Pre.objects : Pre.objects[i].addr # objects[k].addr

SnapState(h) == <<h.objects, h.root, h.phase, h.mapping, h.nextFree>>

\* C5: undo is the inverse of the forward transitions.  Every forward
\* transition pushes exactly the state it starts from, and every undo with a
\* non-empty history restores exactly the state on top of the stack and pops
\* it; so k undos after k forward transitions give back the state before the
\* first of them (objects, root, phase, mapping, nextFree and the history).
C5_UndoInverse ==
    [][ /\ (phase' # phase /\ lastCmd' \in {"doMark", "doPrepare", "doCrunch", "autoRun"}) =>
              /\ Len(history') = Len(history) + 1
              /\ SubSeq(history', 1, Len(history)) = history
              /\ SnapState(history'[Len(history')]) = heapState
        /\ (lastCmd' = "goPrev" /\ Len(history) > 0) =>
              /\ heapState' = SnapState(Pre)
              /\ history' = SubSeq(history, 1, Len(history) - 1)
      ]_vars

\* Three undos after mark, prepare and crunch of a heap whose root is not the
\* scenario's: back in idle, with the root that was chosen before the mark.
C5_Witness ==
    /\ lastCmd = "goPrev"
    /\ phase = "idle"
    /\ history = <<>>
    /\ root # scenario.root
    /\ root # Null

Disjoint(a, b) == a.addr + a.size <= b.addr \/ b.addr + b.size <= a.addr

RemoveAt(seq, j) == SubSeq(seq, 1, j - 1) \o SubSeq(seq, j + 1, Len(seq))

C8_RootIsObjectAddress ==
    root = Null \/ Cardinality({i \in DOMAIN objects : objects[i].addr = root}) = 1

\* C8, amended: in idle, mark and crunch the root is empty or the address of
\* exactly one object; in prepare it is empty or the planned address of exactly
\* one marked object.
C8_RootInvariantAmended ==
    /\ phase \in {"idle", "mark", "crunch"} => C8_RootIsObjectAddress
    /\ phase = "prepare" =>
          \/ root = Null
          \/ Cardinality({i \in MarkedIdx(objects) : objects[i].newAddr = root}) = 1

\* A prepared heap whose root is a planned address at which no object lies yet.
C8_Witness ==
    /\ phase = "prepare"
    /\ root # Null
    /\ \A i \in DOMAIN objects : objects[i].addr # root
    /\ Pre.root # root

\* C9: a command invoked outside its phase changes nothing: mark outside idle,
\* prepare outside mark, crunch outside prepare, setRoot and insertion outside
\* idle leave objects, root, phase, mapping, nextFree and the history as they were.
C9_OutOfPhaseRejected ==
    [][ ( \/ lastCmd' = "doMark" /\ phase # "idle"
          \/ lastCmd' = "doPrepare" /\ phase # "mark"
          \/ lastCmd' = "doCrunch" /\ phase # "prepare"
          \/ lastCmd' = "changeRoot" /\ phase # "idle"
          \/ lastCmd' = "addGarbage" /\ phase # "idle" )
        => UNCHANGED <<objects, root, phase, mapping, nextFree, history>>
      ]_vars

\* A mark invoked, and rejected, on a marked heap.
C9_Witness ==
    /\ lastCmd = "doMark"
    /\ phase = "mark"
    /\ Len(history) = 1

\* The run started from the default scenario with root 2 and no object added.
FromDefault ==
    /\ Len(history) >= 1
    /\ history[1].objects = makeDefaultScenario.objects
    /\ history[1].root = 2
    /\ scenario = makeDefaultScenario

IdsOf(objs) == {objs[i].id : i \in DOMAIN objs}

\* C10: from the default scenario, mark marks A, B and C and not D; prepare
\* gives the mapping {2 -> 0, 8 -> 4, 14 -> 7}, A.fields = [4, 7, null],
\* root = 0 and nextFree = 10; crunch leaves exactly three objects, at 0, 4
\* and 7, and no D.
C10_DefaultScenarioRun ==
    FromDefault =>
        /\ phase = "mark" =>
              {objects[i].id : i \in MarkedIdx(objects)} = {"A", "B", "C"}
        /\ phase = "prepare" =>
              /\ Range(mapping) = {<<2, 0>>, <<8, 4>>, <<14, 7>>}
              /\ Len(mapping) = 3
              /\ \E i \in DOMAIN objects :
                    objects[i].id = "A" /\ objects[i].fields = <<4, 7, Null>>
              /\ root = 0
              /\ nextFree = 10
        /\ phase = "crunch" =>
              /\ Len(objects) = 3
              /\ [i \in 1..Len(objects) |-> objects[i].addr] = <<0, 4, 7>>
              /\ "D" \notin IdsOf(objects)

\* The default scenario after mark, prepare and crunch.
C10_Witness ==
    /\ FromDefault
    /\ phase = "crunch"
    /\ lastCmd = "doCrunch"

\* C11: an undo invoked with an empty history stack changes nothing, and the
\* stack stays empty.
C11_UndoOnEmptyIsNoOp ==
    [][ (lastCmd' = "goPrev" /\ Len(history) = 0) =>
            /\ UNCHANGED <<objects, root, phase, mapping, nextFree>>
            /\ history' = <<>>
      ]_vars

\* An undo on an empty stack, in a heap that no longer is the scenario's
\* initial one: an object was added or another root chosen.
C11_Witness ==
    /\ lastCmd = "goPrev"
    /\ history = <<>>
    /\ phase = "idle"
    /\ \/ Len(objects) > Len(scenario.objects)
       \/ root # scenario.root

\* C12: a reset, from any state, gives phase idle, the scenario's initial
\* objects and root, no object marked or planned, an empty mapping, nextFree
\* the largest addr + size of those objects, and an empty history.
C12_ResetRestoresScenario ==
    [][ lastCmd' = "reset" =>
            /\ phase' = "idle"
            /\ objects' = scenario.objects
            /\ root' = scenario.root
            /\ \A i \in DOMAIN objects' : ~objects'[i].marked /\ objects'[i].newAddr = Null
            /\ mapping' = <<>>
            /\ \A i \in DOMAIN objects' : objects'[i].addr + objects'[i].size <= nextFree'
            /\ \/ \E i \in DOMAIN objects' : objects'[i].addr + objects'[i].size = nextFree'
               \/ objects' = <<>> /\ nextFree' = 0
            /\ history' = <<>>
      ]_vars

\* The state a reset leaves.
C12_Witness ==
    /\ lastCmd = "reset"
    /\ phase = "idle"
    /\ history = <<>>
    /\ objects = scenario.objects

MarkedAddrs(objs) == {objs[i].addr : i \in MarkedIdx(objs)}

\* C13: a second mark with the same root, before the phase advances, leaves
\* the marked set as the first one made it, and marking the marked objects
\* again from the same root gives the same marked set.
C13_MarkIdempotent ==
    [][ (lastCmd' = "doMark" /\ phase = "mark") =>
            /\ MarkedAddrs(objects') = MarkedAddrs(objects)
            /\ MarkedAddrs(markReachable(deepClone(objects), root)) = MarkedAddrs(objects)
      ]_vars

\* A second mark on a heap with a marked and an unmarked object.
C13_Witness ==
    /\ lastCmd = "doMark"
    /\ phase = "mark"
    /\ MarkedIdx(objects) # {}
    /\ MarkedIdx(objects) # DOMAIN objects

\* C14: the step from prepare to crunch leaves root, nextFree and the mapping
\* as prepare computed them; it changes only the objects and the phase, and
\* pushes one snapshot.
C14_CrunchFrame ==
    [][ (phase = "prepare" /\ phase' = "crunch") =>
            /\ root' = root
            /\ nextFree' = nextFree
            /\ mapping' = mapping
            /\ Len(history') = Len(history) + 1
            /\ SubSeq(history', 1, Len(history)) = history
      ]_vars

\* A crunched heap that still has its root, a non-empty mapping and fewer objects.
C14_Witness ==
    /\ phase = "crunch"
    /\ lastCmd = "doCrunch"
    /\ root # Null
    /\ mapping # <<>>
    /\ Len(objects) < Len(Pre.objects)
    /\ root = Pre.root /\ nextFree = Pre.nextFree /\ mapping = Pre.mapping

\* C15: the step from mark to prepare moves no object: the objects are the
\* same, each with its id, address, size and marked flag; a planned address is
\* set for the marked objects and for no other.
C15_PrepareFrame ==
    [][ (phase = "mark" /\ phase' = "prepare") =>
            /\ Len(objects') = Len(objects)
            /\ \A i \in DOMAIN objects :
                  /\ objects'[i].id = objects[i].id
                  /\ objects'[i].addr = objects[i].addr
                  /\ objects'[i].size = objects[i].size
                  /\ objects'[i].marked = objects[i].marked
                  /\ objects'[i].newAddr # Null <=> objects[i].marked
      ]_vars

\* A prepared heap in which a marked object is planned to move but still lies
\* at its old address, next to an unmarked object without a planned address.
C15_Witness ==
    /\ phase = "prepare"
    /\ \E i \in MarkedIdx(objects) :
          /\ objects[i].newAddr # objects[i].addr
          /\ objects[i].addr = Pre.objects[i].addr
    /\ \E g \in DOMAIN objects : ~objects[g].marked /\ objects[g].newAddr = Null

\* C16: in idle no object is marked, none has a planned address and the
\* mapping is empty; the mapping is non-empty in prepare and crunch only.
C16_IdleIsClean ==
    /\ phase = "idle" =>
          /\ \A i \in DOMAIN objects : ~objects[i].marked /\ objects[i].newAddr = Null
          /\ mapping = <<>>
    /\ mapping # <<>> => phase \in {"prepare", "crunch"}

\* Idle reached by undoing a mark.
C16_Witness ==
    /\ phase = "idle"
    /\ lastCmd = "goPrev"
    /\ objects # <<>>
    /\ root # Null
    /\ mapping = <<>>

\* C17: on every object graph, cyclic or with dangling fields, the traversal
\* of mark ends having entered each object at most once: its visit sequence has
\* no address twice, holds addresses of objects only (a field value that is
\* no object's address is not entered), and marks exactly the visited objects.
C17_MarkVisitsOnce ==
    phase = "mark" =>
        LET v == markVisited(Pre.objects, Pre.root)
        IN  /\ \A a, b \in DOMAIN v : a # b => v[a] # v[b]
            /\ \A a \in DOMAIN v : v[a] \in AddrSet(Pre.objects)
            /\ Len(v) <= Len(Pre.objects)
            /\ MarkedAddrs(objects) = Range(v)

\* A mark over an object that points to itself and holds a dangling field.
C17_Witness ==
    /\ phase = "mark"
    /\ \E i \in MarkedIdx(objects) :
          /\ \E k \in DOMAIN objects[i].fields : objects[i].fields[k] = objects[i].addr
          /\ \E k \in DOMAIN objects[i].fields :
                objects[i].fields[k] # Null /\ objects[i].fields[k] \notin AddrSet(objects)

Phases == <<"idle", "mark", "prepare", "crunch">>

PhaseIdx(p) == CHOOSE n \in DOMAIN Phases : Phases[n] = p

\* C18: the history depth is the number of phases advanced (0 in idle, 1 in
\* mark, 2 in prepare, 3 in crunch), the i-th snapshot records the phase with
\* index i - 1, and setRoot and insertion push no snapshot.
C18_HistoryDepth ==
    /\ [] ( /\ Len(history) = PhaseIdx(phase) - 1
            /\ \A i \in DOMAIN history : PhaseIdx(history[i].phase) = i )
    /\ [][ lastCmd' \in {"changeRoot", "addGarbage"} => history' = history ]_vars

\* A crunched heap: three snapshots, of idle, mark and prepare.
C18_Witness ==
    /\ phase = "crunch"
    /\ Len(history) = 3
    /\ history[1].phase = "idle" /\ history[2].phase = "mark" /\ history[3].phase = "prepare"

\* Every non-empty field of objs is the address of an object of objs.
Closed(objs) ==
    \A i \in DOMAIN objs : \A k \in DOMAIN objs[i].fields :
        objs[i].fields[k] = Null \/ objs[i].fields[k] \in AddrSet(objs)

\* The cells the objects of objs occupy.
Cells(objs) == UNION {objs[i].addr .. (objs[i].addr + objs[i].size - 1) : i \in DOMAIN objs}

\* C19: a crunched heap that came from an idle heap without dangling fields is
\* closed and dense: the survivors occupy exactly the cells [0, nextFree)
\* without overlap, every non-empty field of a survivor is the address of a
\* survivor, and a non-empty root is the address of a survivor.
C19_CrunchedClosedDense ==
    (phase = "crunch" /\ Closed(history[1].objects)) =>
        /\ Cells(objects) = 0 .. (nextFree - 1)
        /\ \A i, j \in DOMAIN objects : i # j => Disjoint(objects[i], objects[j])
        /\ Closed(objects)
        /\ root = Null \/ root \in AddrSet(objects)

\* A crunched heap of two or more survivors, one pointing to another, that
\* came from a closed idle heap with garbage in it.
C19_Witness ==
    /\ phase = "crunch"
    /\ Closed(history[1].objects)
    /\ Len(objects) >= 2
    /\ Len(objects) < Len(history[1].objects)
    /\ root # Null
    /\ \E i \in DOMAIN objects : \E k \in DOMAIN objects[i].fields :
          objects[i].fields[k] # Null /\ objects[i].fields[k] # objects[i].addr

\* The first address beyond all the objects of objs (0 when there is none).
EndOf(objs) ==
    IF objs = <<>> THEN 0
    ELSE CHOOSE e \in {objs[i].addr + objs[i].size : i \in DOMAIN objs} :
            \A i \in DOMAIN objs : objs[i].addr + objs[i].size <= e

\* C20: in idle and in crunch nextFree is the first address beyond all current
\* objects, also after objects were inserted in idle.
C20_NextFreeIsEnd ==
    phase \in {"idle", "crunch"} => nextFree = EndOf(objects)

====
